---- MODULE Spec2Model ----
(***************************************************************************)
(* Model of the Bakong KHQR edge function (supabase/functions/bakong-qr)   *)
(* and its two sibling revisions: the HTTP handler, the EMVCo TLV encoder  *)
(* generateKHQRString and the checksum calculateCRC16; and of the renewal  *)
(* reminder edge function (supabase/functions/renewal-reminder).           *)
(*                                                                         *)
(* A JavaScript string is the sequence of its UTF-16 code units.           *)
(***************************************************************************)
EXTENDS Integers, Sequences, FiniteSets, TLC

VARIABLES
    config,     \* payment_gateways row "bakong": its config column
    env,        \* Deno.env: BAKONG_MERCHANT_ID, BAKONG_TOKEN
    payments,   \* table "payments": the rows inserted so far, in order
    pc,         \* "idle" | "pending" (a request is in flight) | "done"
    req,        \* the request in flight, then the request last handled
    resp,       \* the response to the request last handled
    str,        \* checksum engine: the argument of calculateCRC16
    crc,        \* checksum engine: the string calculateCRC16 returned
    invoices,   \* table "invoices": its rows, in order of their ids
    now,        \* renewal reminder: the time of the last request, in ms
    summary     \* renewal reminder: the response to the last request

vars == <<config, env, payments, pc, req, resp, str, crc, invoices, now, summary>>

-----------------------------------------------------------------------------
(* String literals of the source, as code units *)

STR_000201     == <<48, 48, 48, 50, 48, 49>>
STR_010212     == <<48, 49, 48, 50, 49, 50>>
STR_0006bakong == <<48, 48, 48, 54, 98, 97, 107, 111, 110, 103>>
STR_0016       == <<48, 48, 49, 54>>
STR_0115       == <<48, 49, 49, 53>>
STR_52045411   == <<53, 50, 48, 52, 53, 52, 49, 49>>
STR_5303       == <<53, 51, 48, 51>>
STR_5802KH     == <<53, 56, 48, 50, 75, 72>>
STR_6304       == <<54, 51, 48, 52>>
STR_01         == <<48, 49>>
STR_05         == <<48, 53>>
STR_29         == <<50, 57>>
STR_54         == <<53, 52>>
STR_59         == <<53, 57>>
STR_60         == <<54, 48>>
STR_62         == <<54, 50>>
STR_840        == <<56, 52, 48>>
STR_116        == <<49, 49, 54>>
STR_USD        == <<85, 83, 68>>
STR_KHR        == <<75, 72, 82>>
STR_check_payment == <<99, 104, 101, 99, 107, 45, 112, 97, 121, 109, 101, 110, 116>>
STR_undefined  == <<117, 110, 100, 101, 102, 105, 110, 101, 100>>
STR_Infinity   == <<73, 110, 102, 105, 110, 105, 116, 121>>
\* "merchant@bakong", "GameHost", "Phnom Penh": the handler's defaults
STR_merchant_bakong == <<109, 101, 114, 99, 104, 97, 110, 116, 64, 98, 97, 107, 111, 110, 103>>
STR_GameHost   == <<71, 97, 109, 101, 72, 111, 115, 116>>
STR_Phnom_Penh == <<80, 104, 110, 111, 109, 32, 80, 101, 110, 104>>

USD_TO_KHR_RATE == 4100

-----------------------------------------------------------------------------
(* JavaScript values *)

\* undefined, kept apart from every string (no code unit is negative)
Undefined == <<0 - 1>>

\* ToBoolean of a string or undefined: undefined and "" are falsy
Truthy(s) == s # Undefined /\ s # <<>>

\* a || b
OrElse(a, b) == IF Truthy(a) THEN a ELSE b

\* ToString, as applied by "literal" + v
JSToString(v) == IF v = Undefined THEN STR_undefined ELSE v

Min(a, b) == IF a < b THEN a ELSE b

\* String.prototype.substring(0, n)
substring(s, n) == SubSeq(s, 1, Min(n, Len(s)))

\* one decimal digit as its code unit
DigitChar(d) == 48 + d

\* Number.prototype.toString() of a non-negative integer
RECURSIVE IntToString(_)
IntToString(n) ==
    IF n < 10 THEN <<DigitChar(n)>>
    ELSE Append(IntToString(n \div 10), DigitChar(n % 10))

\* String.prototype.padStart(n, c) with a one-character filler
RECURSIVE padStart(_, _, _)
padStart(s, n, c) == IF Len(s) >= n THEN s ELSE padStart(<<c>> \o s, n, c)

\* x.length.toString().padStart(2, "0")
LengthPrefix(s) == padStart(IntToString(Len(s)), 2, DigitChar(0))

(* A number of the request body is undefined (field absent), Infinity (a   *)
(* JSON literal beyond the double range) or finite; a finite number is     *)
(* kept exactly, in hundredths.                                            *)
NumUndefined   == [kind |-> "undefined", cents |-> 0]
NumInfinity    == [kind |-> "Infinity", cents |-> 0]
Num(c)         == [kind |-> "number", cents |-> c]

\* !amount is false: undefined and 0 are falsy
NumTruthy(a) == a.kind = "Infinity" \/ (a.kind = "number" /\ a.cents # 0)

\* Math.round(a * k): the nearest integer, a tie towards +Infinity
MathRoundTimes(a, k) ==
    IF a.kind = "number"
    THEN Num(100 * ((a.cents * k + 50) \div 100))
    ELSE a

\* (a variant that formats the amount as String(amount) does: no trailing
\* zeros, no decimal point for a whole number)
toFixed_toString(a, digits) ==
    IF a.kind = "Infinity" THEN STR_Infinity
    ELSE LET m    == IF a.cents < 0 THEN 0 - a.cents ELSE a.cents
             sign == IF a.cents < 0 THEN <<45>> ELSE <<>>
         IN  IF m % 100 = 0
             THEN sign \o IntToString(m \div 100)
             ELSE IF m % 10 = 0
             THEN sign \o IntToString(m \div 100) \o <<46>> \o <<DigitChar((m % 100) \div 10)>>
             ELSE sign \o IntToString(m \div 100) \o <<46>>
                       \o <<DigitChar((m % 100) \div 10), DigitChar(m % 10)>>

\* Number.prototype.toFixed(digits), digits 0 or 2: the nearest decimal with
\* that many fraction digits, a tie away from zero, the sign kept
toFixed(a, digits) ==
    IF a.kind = "Infinity" THEN STR_Infinity
    ELSE LET m    == IF a.cents < 0 THEN 0 - a.cents ELSE a.cents
             sign == IF a.cents < 0 THEN <<45>> ELSE <<>>
         IN  IF digits = 0
             THEN sign \o IntToString((m + 50) \div 100)
             ELSE sign \o IntToString(m \div 100) \o <<46>>
                       \o <<DigitChar((m % 100) \div 10), DigitChar(m % 10)>>

-----------------------------------------------------------------------------
(* 32-bit integer operators of JavaScript.  An int32 is kept as its bit    *)
(* pattern in two 16-bit halves [hi, lo].                                  *)

\* ToInt32 of a non-negative integer below 2^31
Int32(n) == [hi |-> (n \div 65536) % 65536, lo |-> n % 65536]

RECURSIVE BitXor(_, _)
BitXor(a, b) ==
    IF a = 0 THEN b
    ELSE IF b = 0 THEN a
    ELSE ((a + b) % 2) + 2 * BitXor(a \div 2, b \div 2)

\* the exclusive or of two 4-bit numbers, tabulated
XorNibble == [a \in 0..15 |-> [b \in 0..15 |-> BitXor(a, b)]]

\* the exclusive or of two 16-bit numbers, nibble by nibble
Xor16(a, b) ==
    IF a = 0 THEN b
    ELSE IF b = 0 THEN a
    ELSE   XorNibble[a % 16][b % 16]
         + 16 * XorNibble[(a \div 16) % 16][(b \div 16) % 16]
         + 256 * XorNibble[(a \div 256) % 16][(b \div 256) % 16]
         + 4096 * XorNibble[a \div 4096][b \div 4096]

\* a ^ b
Xor32(a, b) == [hi |-> Xor16(a.hi, b.hi), lo |-> Xor16(a.lo, b.lo)]

\* a << 1: the bit shifted out of position 31 is lost
Shl1(a) == [hi |-> (2 * a.hi + a.lo \div 32768) % 65536, lo |-> (2 * a.lo) % 65536]

\* a << k
RECURSIVE Shl32(_, _)
Shl32(a, k) == IF k = 0 THEN a ELSE Shl32(Shl1(a), k - 1)

\* (a & 0x8000) is not zero: bit 15 is set
And8000(a) == (a.lo \div 32768) % 2 = 1

\* a & 0xFFFF
AndFFFF(a) == [hi |-> 0, lo |-> a.lo]

-----------------------------------------------------------------------------
(* calculateCRC16 *)

\* (a variant that compares the register with 0x8000 instead of testing
\* bit 15: right only for a register masked after every shift)
RECURSIVE CrcShift_compare(_, _)
CrcShift_compare(c, j) ==
    IF j = 0 THEN c
    ELSE CrcShift_compare(IF c.hi > 0 \/ c.lo >= 32768
                          THEN Xor32(Shl1(c), Int32(4129))
                          ELSE Shl1(c), j - 1)

\* the inner loop, j iterations to go: no mask between the shifts
RECURSIVE CrcShift(_, _)
CrcShift(c, j) ==
    IF j = 0 THEN c
    ELSE CrcShift(IF And8000(c)
                  THEN Xor32(Shl1(c), Int32(4129))
                  ELSE Shl1(c), j - 1)

\* the body of the outer loop for the code unit ch
CrcChar(c, ch) == AndFFFF(CrcShift(Xor32(c, Shl32(Int32(ch), 8)), 8))

\* the outer loop over s[lo .. hi], entered with register c.  The code units
\* are consumed left to right; the range is halved, and the register after
\* the left half is read (it is never negative) before the right half is
\* entered, so that the nesting of the evaluation stays logarithmic.
RECURSIVE CrcLoop(_, _, _, _)
CrcLoop(c, s, lo, hi) ==
    IF lo > hi THEN c
    ELSE IF lo = hi THEN CrcChar(c, s[lo])
    ELSE LET mid  == (lo + hi) \div 2
             left == CrcLoop(c, s, lo, mid)
         IN  IF left.lo >= 0 THEN CrcLoop(left, s, mid + 1, hi) ELSE left

\* one hexadecimal digit, upper case, as its code unit
HexChar(d) == IF d < 10 THEN 48 + d ELSE 55 + d

\* Number.prototype.toString(16).toUpperCase() of a non-negative integer
RECURSIVE ToHexUpper(_)
ToHexUpper(n) ==
    IF n < 16 THEN <<HexChar(n)>>
    ELSE Append(ToHexUpper(n \div 16), HexChar(n % 16))

calculateCRC16(s) ==
    LET reg == CrcLoop(Int32(65535), s, 1, Len(s))
    IN  padStart(ToHexUpper(reg.hi * 65536 + reg.lo), 4, DigitChar(0))

-----------------------------------------------------------------------------
(* generateKHQRString, supabase/functions/bakong-qr/index.ts *)

\* tag 29: the merchant account information as assembled
merchantInfo(payload) ==
    LET bakongId     == STR_0006bakong
        merchantAcct == LengthPrefix(payload.merchantId) \o payload.merchantId
    IN  bakongId \o STR_01 \o merchantAcct

\* tag 62: the additional data as assembled
additionalData(payload) ==
    LET billNumber == substring(payload.transactionId, 25)
    IN  STR_01 \o LengthPrefix(billNumber) \o billNumber

\* tag 53: the currency code
currencyCode(payload) == IF payload.currency = STR_USD THEN STR_840 ELSE STR_116

\* (a variant that emits the currency before the category code)
khqrFields_currencyFirst(payload) ==
    LET amountStr    == payload.amount
        merchantName == substring(payload.merchantName, 25)
        merchantCity == substring(payload.merchantCity, 15)
    IN     STR_000201
        \o STR_010212
        \o STR_29 \o LengthPrefix(merchantInfo(payload)) \o merchantInfo(payload)
        \o STR_5303 \o currencyCode(payload)
        \o STR_52045411
        \o STR_54 \o LengthPrefix(amountStr) \o amountStr
        \o STR_5802KH
        \o STR_59 \o LengthPrefix(merchantName) \o merchantName
        \o STR_60 \o LengthPrefix(merchantCity) \o merchantCity
        \o STR_62 \o LengthPrefix(additionalData(payload)) \o additionalData(payload)

\* the running qrString before the CRC placeholder is appended
khqrFields(payload) ==
    LET amountStr    == payload.amount
        merchantName == substring(payload.merchantName, 25)
        merchantCity == substring(payload.merchantCity, 15)
    IN     STR_000201
        \o STR_010212
        \o STR_29 \o LengthPrefix(merchantInfo(payload)) \o merchantInfo(payload)
        \o STR_52045411
        \o STR_5303 \o currencyCode(payload)
        \o STR_54 \o LengthPrefix(amountStr) \o amountStr
        \o STR_5802KH
        \o STR_59 \o LengthPrefix(merchantName) \o merchantName
        \o STR_60 \o LengthPrefix(merchantCity) \o merchantCity
        \o STR_62 \o LengthPrefix(additionalData(payload)) \o additionalData(payload)

\* (a variant that takes the checksum before the placeholder is appended)
generateKHQRString_crcFirst(payload) ==
    LET qrString == khqrFields(payload)
    IN  qrString \o STR_6304 \o calculateCRC16(qrString)

generateKHQRString(payload) ==
    LET qrString == khqrFields(payload) \o STR_6304
    IN  qrString \o calculateCRC16(qrString)

-----------------------------------------------------------------------------
(* generateKHQRString, the revision with the merchant taken from Deno.env *)

merchantInfo_env(payload) ==
       STR_0016 \o JSToString(payload.merchantId)
    \o STR_0115 \o substring(payload.merchantName, 15)

additionalData_env(payload) ==
    LET refNumber == substring(payload.transactionId, 25)
    IN  STR_05 \o LengthPrefix(refNumber) \o refNumber

khqrFields_env(payload) ==
    LET amountStr    == payload.amount
        merchantName == substring(payload.merchantName, 25)
        merchantCity == substring(payload.merchantCity, 15)
    IN     STR_000201
        \o STR_010212
        \o STR_29 \o LengthPrefix(merchantInfo_env(payload)) \o merchantInfo_env(payload)
        \o STR_52045411
        \o STR_5303 \o currencyCode(payload)
        \o STR_54 \o LengthPrefix(amountStr) \o amountStr
        \o STR_5802KH
        \o STR_59 \o LengthPrefix(merchantName) \o merchantName
        \o STR_60 \o LengthPrefix(merchantCity) \o merchantCity
        \o STR_62 \o LengthPrefix(additionalData_env(payload)) \o additionalData_env(payload)

generateKHQRString_env(payload) ==
    LET qrString == khqrFields_env(payload) \o STR_6304
    IN  qrString \o calculateCRC16(qrString)

-----------------------------------------------------------------------------
(* generateKHQRString, the revision with the payment status check *)

merchantInfo_md5(payload) ==
    LET bakongId     == STR_0006bakong
        merchantAcct == LengthPrefix(payload.merchantId) \o payload.merchantId
    IN  bakongId \o STR_01 \o merchantAcct

additionalData_md5(payload) ==
    LET billNumber == substring(payload.transactionId, 25)
    IN  STR_01 \o LengthPrefix(billNumber) \o billNumber

\* (a variant that emits the merchant name and city uncut)
khqrFields_md5_uncut(payload) ==
    LET amountStr    == payload.amount
        merchantName == payload.merchantName
        merchantCity == payload.merchantCity
    IN     STR_000201
        \o STR_010212
        \o STR_29 \o LengthPrefix(merchantInfo_md5(payload)) \o merchantInfo_md5(payload)
        \o STR_52045411
        \o STR_5303 \o currencyCode(payload)
        \o STR_54 \o LengthPrefix(amountStr) \o amountStr
        \o STR_5802KH
        \o STR_59 \o LengthPrefix(merchantName) \o merchantName
        \o STR_60 \o LengthPrefix(merchantCity) \o merchantCity
        \o STR_62 \o LengthPrefix(additionalData_md5(payload)) \o additionalData_md5(payload)

khqrFields_md5(payload) ==
    LET amountStr    == payload.amount
        merchantName == substring(payload.merchantName, 25)
        merchantCity == substring(payload.merchantCity, 15)
    IN     STR_000201
        \o STR_010212
        \o STR_29 \o LengthPrefix(merchantInfo_md5(payload)) \o merchantInfo_md5(payload)
        \o STR_52045411
        \o STR_5303 \o currencyCode(payload)
        \o STR_54 \o LengthPrefix(amountStr) \o amountStr
        \o STR_5802KH
        \o STR_59 \o LengthPrefix(merchantName) \o merchantName
        \o STR_60 \o LengthPrefix(merchantCity) \o merchantCity
        \o STR_62 \o LengthPrefix(additionalData_md5(payload)) \o additionalData_md5(payload)

generateKHQRString_md5(payload) ==
    LET qrString == khqrFields_md5(payload) \o STR_6304
    IN  qrString \o calculateCRC16(qrString)

-----------------------------------------------------------------------------
(* Bounds and inputs *)

\* the payments table holds at most this many rows
MaxPayments == 1

\* the checksum engine is applied to strings of at most this length
MaxCrcLen == 3

STR_EUR      == <<69, 85, 82>>
STR_ORDER123 == <<79, 82, 68, 69, 82, 49, 50, 51>>
STR_user_1   == <<117, 115, 101, 114, 45, 49>>
\* a 16-character account id
STR_game_host_bakong ==
    <<103, 97, 109, 101, 95, 104, 111, 115, 116, 64, 98, 97, 107, 111, 110, 103>>
STR_token    == <<116, 111, 107, 101, 110>>

\* strings longer than a field's capacity: "ab..." of length n
Letters(n) == [i \in 1..n |-> 97 + ((i - 1) % 26)]

NoConfig ==
    [merchantId |-> Undefined, merchantName |-> Undefined,
     merchantCity |-> Undefined, currency |-> Undefined]

\* the config column of the gateway row, and the environment it runs in
Deployments ==
    {[config |-> [NoConfig EXCEPT !.currency = c],
      env |-> [BAKONG_MERCHANT_ID |-> STR_game_host_bakong, BAKONG_TOKEN |-> STR_token]]
        : c \in {Undefined, STR_USD, STR_KHR}}
    \cup
    {[config |-> [merchantId |-> Letters(86), merchantName |-> Letters(30),
                  merchantCity |-> Letters(20), currency |-> Undefined],
      env |-> [BAKONG_MERCHANT_ID |-> STR_game_host_bakong, BAKONG_TOKEN |-> STR_token]],
     [config |-> NoConfig,
      env |-> [BAKONG_MERCHANT_ID |-> Undefined, BAKONG_TOKEN |-> Undefined]]}

Handlers == {"index", "env", "md5"}

\* request bodies: the amounts 10.00 and -5.00 with every currency, an
\* amount beyond the double range, and every way of leaving out amount,
\* orderId and userId
Bodies ==
    {[action |-> Undefined, amount |-> a, currency |-> c,
      orderId |-> STR_ORDER123, userId |-> Undefined]
        : a \in {Num(1000), Num(0 - 500)},
          c \in {Undefined, STR_USD, STR_KHR, STR_EUR}}
    \cup
    {[action |-> Undefined, amount |-> NumInfinity, currency |-> STR_USD,
      orderId |-> STR_ORDER123, userId |-> Undefined]}
    \cup
    {[action |-> Undefined, amount |-> a, currency |-> STR_USD,
      orderId |-> o, userId |-> u]
        : a \in {NumUndefined, Num(0), Num(1000)},
          o \in {Undefined, STR_ORDER123, Letters(30)},
          u \in {Undefined, STR_user_1}}

CheckBodies ==
    {[action |-> STR_check_payment, amount |-> NumUndefined, currency |-> Undefined,
      orderId |-> o, userId |-> Undefined]
        : o \in {Undefined, STR_ORDER123, Letters(30)}}

Requests ==
    {[handler |-> h, body |-> b] : h \in Handlers, b \in Bodies}
    \cup {[handler |-> "md5", body |-> b] : b \in CheckBodies}

\* code units the checksum engine is tried on: NUL, "1", "A", 0xFF, 0x100,
\* the euro sign, 0x8000 and 0xFFFF
CrcAlphabet == {0, 49, 65, 255, 256, 8364, 32768, 65535}

-----------------------------------------------------------------------------
(* Responses *)

NoPayload ==
    [merchantId |-> <<>>, merchantName |-> <<>>, merchantCity |-> <<>>,
     currency |-> <<>>, amount |-> <<>>, transactionId |-> <<>>]

\* nothing sent yet
NoResponse ==
    [status |-> 0, error |-> "", qrString |-> <<>>, payload |-> NoPayload,
     imageRequested |-> FALSE, bakongCalled |-> FALSE, paymentStatus |-> ""]

\* the catch block: status 500 with the message of the error
ErrorResponse(message) == [NoResponse EXCEPT !.status = 500, !.error = message]

\* the success response of a generate request
QrResponse(payload, qrString) ==
    [NoResponse EXCEPT !.status = 200, !.qrString = qrString,
                       !.payload = payload, !.imageRequested = TRUE]

\* generateQRCodeImage threw: fetch failed
ImageError == [ErrorResponse("fetch failed") EXCEPT !.imageRequested = TRUE]

\* supabase.from("payments").insert(...): the columns later reads depend on
PaymentRow(orderId, hasMd5) == [transaction_id |-> orderId, md5_hash |-> hasMd5]

-----------------------------------------------------------------------------
(* The serve handlers.  Each yields the response and the rows it inserts;  *)
(* imageOk is whether the QR image service answered.                       *)

\* supabase/functions/bakong-qr/index.ts
serve_index(body, imageOk) ==
    IF ~NumTruthy(body.amount) \/ ~Truthy(body.orderId)
    THEN [resp |-> ErrorResponse("Missing required fields: amount, orderId"),
          rows |-> <<>>]
    ELSE
    LET merchantId    == OrElse(config.merchantId, STR_merchant_bakong)
        merchantName  == OrElse(config.merchantName, STR_GameHost)
        merchantCity  == OrElse(config.merchantCity, STR_Phnom_Penh)
        finalCurrency == OrElse(body.currency, OrElse(config.currency, STR_USD))
        finalAmount   == IF config.currency = STR_KHR /\ body.currency = STR_USD
                         THEN MathRoundTimes(body.amount, USD_TO_KHR_RATE)
                         ELSE body.amount
        khqrPayload   ==
            [merchantId    |-> merchantId,
             merchantName  |-> merchantName,
             merchantCity  |-> merchantCity,
             currency      |-> OrElse(config.currency, finalCurrency),
             amount        |-> toFixed(finalAmount,
                                       IF config.currency = STR_KHR THEN 0 ELSE 2),
             transactionId |-> substring(body.orderId, 25)]
    IN  IF ~imageOk
        THEN [resp |-> ImageError, rows |-> <<>>]
        ELSE [resp |-> QrResponse(khqrPayload, generateKHQRString(khqrPayload)),
              rows |-> IF Truthy(body.userId)
                       THEN <<PaymentRow(body.orderId, FALSE)>>
                       ELSE <<>>]

\* the revision with the merchant taken from Deno.env
serve_env(body, imageOk) ==
    IF ~NumTruthy(body.amount) \/ ~Truthy(body.orderId)
    THEN [resp |-> ErrorResponse("Missing required fields: amount, orderId"),
          rows |-> <<>>]
    ELSE
    LET khqrPayload ==
            [merchantId    |-> env.BAKONG_MERCHANT_ID,
             merchantName  |-> STR_GameHost,
             merchantCity  |-> STR_Phnom_Penh,
             currency      |-> OrElse(body.currency, STR_USD),
             amount        |-> toFixed(body.amount, 2),
             transactionId |-> body.orderId]
    IN  IF ~imageOk
        THEN [resp |-> ImageError, rows |-> <<>>]
        ELSE [resp |-> QrResponse(khqrPayload, generateKHQRString_env(khqrPayload)),
              rows |-> <<PaymentRow(body.orderId, FALSE)>>]

\* the revision with the payment status check: a generate request
serve_md5(body, imageOk) ==
    IF ~NumTruthy(body.amount) \/ ~Truthy(body.orderId)
    THEN [resp |-> ErrorResponse("Missing required fields: amount, orderId"),
          rows |-> <<>>]
    ELSE
    LET merchantId     == OrElse(config.merchantId, STR_merchant_bakong)
        merchantName   == OrElse(config.merchantName, STR_GameHost)
        merchantCity   == OrElse(config.merchantCity, STR_Phnom_Penh)
        configCurrency == OrElse(config.currency, STR_USD)
        finalCurrency  == configCurrency
        finalAmount    == IF configCurrency = STR_KHR /\ body.currency = STR_USD
                          THEN MathRoundTimes(body.amount, USD_TO_KHR_RATE)
                          ELSE body.amount
        khqrPayload    ==
            [merchantId    |-> merchantId,
             merchantName  |-> merchantName,
             merchantCity  |-> merchantCity,
             currency      |-> finalCurrency,
             amount        |-> toFixed(finalAmount,
                                       IF finalCurrency = STR_KHR THEN 0 ELSE 2),
             transactionId |-> substring(body.orderId, 25)]
    IN  IF ~imageOk
        THEN [resp |-> ImageError, rows |-> <<>>]
        ELSE [resp |-> QrResponse(khqrPayload, generateKHQRString_md5(khqrPayload)),
              rows |-> IF Truthy(body.userId)
                       THEN <<PaymentRow(body.orderId, TRUE)>>
                       ELSE <<>>]

\* .eq("transaction_id", orderId).maybeSingle(): the row if exactly one
\* matches, else no data
maybeSingle(orderId) ==
    LET hits == SelectSeq(payments, LAMBDA row : row.transaction_id = orderId)
    IN  IF Len(hits) = 1 THEN hits ELSE <<>>

\* (a variant that asks the Bakong API as soon as a payment row is found,
\* whether or not the row carries a hash)
serve_check_anyRow(body, api) ==
    IF ~Truthy(env.BAKONG_TOKEN)
    THEN ErrorResponse("BAKONG_TOKEN not configured")
    ELSE
    LET payment == maybeSingle(body.orderId)
    IN  IF payment = <<>>
        THEN ErrorResponse("No MD5 hash found for this transaction")
        ELSE IF api = "throw"
        THEN [ErrorResponse("fetch failed") EXCEPT !.bakongCalled = TRUE]
        ELSE [NoResponse EXCEPT !.status = 200, !.bakongCalled = TRUE,
                                !.paymentStatus = IF api = "0" THEN "paid" ELSE "pending"]

\* the revision with the payment status check: action "check-payment";
\* api is what the Bakong API did: "throw", or its responseCode 0 or 1
serve_check(body, api) ==
    IF ~Truthy(env.BAKONG_TOKEN)
    THEN ErrorResponse("BAKONG_TOKEN not configured")
    ELSE
    LET payment == maybeSingle(body.orderId)
        md5Hash == payment # <<>> /\ payment[1].md5_hash
    IN  IF ~md5Hash
        THEN ErrorResponse("No MD5 hash found for this transaction")
        ELSE IF api = "throw"
        THEN [ErrorResponse("fetch failed") EXCEPT !.bakongCalled = TRUE]
        ELSE [NoResponse EXCEPT !.status = 200, !.bakongCalled = TRUE,
                                !.paymentStatus = IF api = "0" THEN "paid" ELSE "pending"]

-----------------------------------------------------------------------------
(* The renewal reminder: checkUpcomingRenewals and getPendingReminders.    *)
(* A time is a number of milliseconds; a row of the invoices table is      *)
(* [id, status, due_date].                                                 *)

\* 24 * 60 * 60 * 1000
Day == 86400000

\* at most this many rows in the invoices table
MaxInvoices == 2

\* the times at which requests arrive
FirstCheckTime == 10 * Day
CheckTimes == {FirstCheckTime, FirstCheckTime + 1}

\* due dates around the check times: two days and half a day before, at the
\* first check time, and 1, 3, 7 days after it to the millisecond and beyond
DueDates ==
    {FirstCheckTime - 2 * Day, FirstCheckTime - (Day \div 2), FirstCheckTime,
     FirstCheckTime + Day, FirstCheckTime + 3 * Day + 1,
     FirstCheckTime + 7 * Day, FirstCheckTime + 7 * Day + 1}

InvoiceStatuses == {"unpaid", "overdue", "paid"}

\* the tables of n rows, ids 1..n
InvoiceTables(n) ==
    {[i \in 1..n |-> [id |-> i, status |-> f[i][1], due_date |-> f[i][2]]]
        : f \in [1..n -> InvoiceStatuses \X DueDates]}

\* Math.ceil(n / d) for d > 0 (-0 is 0)
MathCeil(n, d) == 0 - ((0 - n) \div d)

\* nothing sent yet
NoSummary ==
    [status |-> 0, action |-> "", error |-> "",
     totalInvoicesChecked |-> 0, remindersGenerated |-> 0, reminders |-> <<>>,
     reminderBreakdown |-> [sevenDays |-> 0, threeDays |-> 0, oneDay |-> 0],
     totalPending |-> 0, overdueCount |-> 0, dueSoonCount |-> 0]

\* the catch block of the handler
ReminderError(action, message) ==
    [NoSummary EXCEPT !.status = 500, !.action = action, !.error = message]

\* (a variant that reminds at every whole number of days up to 7)
shouldRemind_anyDay(daysUntilDue) == daysUntilDue >= 1 /\ daysUntilDue <= 7

\* reminders are sent 7, 3 and 1 day(s) before the due date
shouldRemind(daysUntilDue) ==
    daysUntilDue = 7 \/ daysUntilDue = 3 \/ daysUntilDue = 1

\* the action "check" at time t; dbOk is whether the query succeeded
checkUpcomingRenewals(t, dbOk) ==
    IF ~dbOk THEN ReminderError("check", "Failed to fetch invoices")
    ELSE
    LET sevenDaysFromNow == t + 7 * Day
        rows == SelectSeq(invoices, LAMBDA invoice :
                    /\ invoice.status = "unpaid"
                    /\ invoice.due_date >= t
                    /\ invoice.due_date <= sevenDaysFromNow)
        due == SelectSeq(rows, LAMBDA invoice :
                    shouldRemind(MathCeil(invoice.due_date - t, Day)))
        reminders == [k \in 1..Len(due) |->
                         [invoiceId    |-> due[k].id,
                          dueDate      |-> due[k].due_date,
                          daysUntilDue |-> MathCeil(due[k].due_date - t, Day)]]
        count(d) == Len(SelectSeq(reminders, LAMBDA r : r.daysUntilDue = d))
    IN  [NoSummary EXCEPT
            !.status = 200, !.action = "check",
            !.totalInvoicesChecked = Len(rows),
            !.remindersGenerated = Len(reminders),
            !.reminders = reminders,
            !.reminderBreakdown = [sevenDays |-> count(7), threeDays |-> count(3),
                                   oneDay |-> count(1)]]

\* .order("due_date", { ascending: true }): rows of equal due date are kept
\* in the order of their ids
RECURSIVE orderByDueDate(_)
orderByDueDate(rows) ==
    IF rows = <<>> THEN <<>>
    ELSE LET first == CHOOSE i \in 1..Len(rows) :
                          \A j \in 1..Len(rows) :
                              \/ rows[i].due_date < rows[j].due_date
                              \/ rows[i].due_date = rows[j].due_date /\ i <= j
         IN  <<rows[first]>>
             \o orderByDueDate(SubSeq(rows, 1, first - 1)
                               \o SubSeq(rows, first + 1, Len(rows)))

\* the filter of dueSoonCount
dueSoon(r) == ~r.isOverdue /\ r.daysUntilDue <= 3

\* the action "get-pending" at time t; dbOk is whether the query succeeded
getPendingReminders(t, dbOk) ==
    IF ~dbOk THEN ReminderError("get-pending", "Failed to fetch pending reminders")
    ELSE
    LET sevenDaysFromNow == t + 7 * Day
        rows == orderByDueDate(SelectSeq(invoices, LAMBDA invoice :
                    /\ invoice.status \in {"unpaid", "overdue"}
                    /\ invoice.due_date <= sevenDaysFromNow))
        pendingReminders ==
            [k \in 1..Len(rows) |->
                LET daysUntilDue == MathCeil(rows[k].due_date - t, Day)
                IN  [invoiceId    |-> rows[k].id,
                     dueDate      |-> rows[k].due_date,
                     daysUntilDue |-> daysUntilDue,
                     status       |-> rows[k].status,
                     isOverdue    |-> daysUntilDue < 0]]
    IN  [NoSummary EXCEPT
            !.status = 200, !.action = "get-pending",
            !.totalPending = Len(pendingReminders),
            !.overdueCount = Len(SelectSeq(pendingReminders, LAMBDA r : r.isOverdue)),
            !.dueSoonCount = Len(SelectSeq(pendingReminders, dueSoon)),
            !.reminders = pendingReminders]

-----------------------------------------------------------------------------
(* Actions *)

\* a request arrives
Receive(r) ==
    /\ pc \in {"idle", "done"}
    /\ pc' = "pending"
    /\ req' = r
    /\ resp' = NoResponse
    /\ UNCHANGED <<config, env, payments, str, crc, invoices, now, summary>>

\* the handler runs to its response; out is what it yields
Respond(out) ==
    /\ Len(payments) + Len(out.rows) <= MaxPayments
    /\ pc' = "done"
    /\ resp' = out.resp
    /\ payments' = payments \o out.rows
    /\ UNCHANGED <<config, env, req, str, crc, invoices, now, summary>>

GenerateIndex ==
    /\ pc = "pending" /\ req.handler = "index"
    /\ \E imageOk \in BOOLEAN : Respond(serve_index(req.body, imageOk))

GenerateEnv ==
    /\ pc = "pending" /\ req.handler = "env"
    /\ \E imageOk \in BOOLEAN : Respond(serve_env(req.body, imageOk))

GenerateMd5 ==
    /\ pc = "pending" /\ req.handler = "md5"
    /\ req.body.action # STR_check_payment
    /\ \E imageOk \in BOOLEAN : Respond(serve_md5(req.body, imageOk))

CheckPayment ==
    /\ pc = "pending" /\ req.handler = "md5"
    /\ req.body.action = STR_check_payment
    /\ \E api \in {"throw", "0", "1"} :
           Respond([resp |-> serve_check(req.body, api), rows |-> <<>>])

\* calculateCRC16 applied to the string so far, one code unit longer
Checksum(ch) ==
    /\ Len(str) < MaxCrcLen
    /\ str' = Append(str, ch)
    /\ crc' = calculateCRC16(str')
    /\ UNCHANGED <<config, env, payments, pc, req, resp, invoices, now, summary>>

NoRequest == [handler |-> "", body |-> [action |-> Undefined, amount |-> NumUndefined,
              currency |-> Undefined, orderId |-> Undefined, userId |-> Undefined]]

Init ==
    /\ \E d \in Deployments : config = d.config /\ env = d.env
    /\ payments = <<>>
    /\ pc = "idle"
    /\ req = NoRequest
    /\ resp = NoResponse
    /\ str = <<>>
    /\ crc = calculateCRC16(<<>>)
    /\ invoices = <<>>
    /\ now = FirstCheckTime
    /\ summary = NoSummary

Next ==
    \/ \E r \in Requests : Receive(r)
    \/ GenerateIndex
    \/ GenerateEnv
    \/ GenerateMd5
    \/ CheckPayment

Spec == Init /\ [][Next]_vars

\* the checksum engine on its own
NextCRC == \E ch \in CrcAlphabet : Checksum(ch)

SpecCRC == Init /\ [][NextCRC]_vars

\* const { action = "check" } = body: "" stands for a body without action
actionOrDefault(a) == IF a = "" THEN "check" ELSE a

\* the renewal reminder handler answers, at the time t, with s
ReminderRespond(t, s) ==
    /\ now' = t
    /\ summary' = s
    /\ UNCHANGED <<config, env, payments, pc, req, resp, str, crc, invoices>>

\* case "check"
ReminderCheck ==
    \E a \in {"", "check"}, t \in CheckTimes, dbOk \in BOOLEAN :
        /\ t >= now /\ actionOrDefault(a) = "check"
        /\ ReminderRespond(t, checkUpcomingRenewals(t, dbOk))

\* case "get-pending"
ReminderGetPending ==
    \E a \in {"get-pending"}, t \in CheckTimes, dbOk \in BOOLEAN :
        /\ t >= now /\ actionOrDefault(a) = "get-pending"
        /\ ReminderRespond(t, getPendingReminders(t, dbOk))

\* default: throw new Error(`Unknown action: ${action}`)
ReminderUnknown ==
    \E a \in {"send"}, t \in CheckTimes :
        /\ t >= now /\ actionOrDefault(a) \notin {"check", "get-pending"}
        /\ ReminderRespond(t, ReminderError(actionOrDefault(a), "Unknown action"))

\* the renewal reminder on its own, over every invoices table
InitReminder ==
    /\ config = NoConfig
    /\ env = [BAKONG_MERCHANT_ID |-> Undefined, BAKONG_TOKEN |-> Undefined]
    /\ payments = <<>>
    /\ pc = "idle"
    /\ req = NoRequest
    /\ resp = NoResponse
    /\ str = <<>>
    /\ crc = calculateCRC16(<<>>)
    /\ \E n \in 0..MaxInvoices : invoices \in InvoiceTables(n)
    /\ now = FirstCheckTime
    /\ summary = NoSummary

NextReminder ==
    \/ ReminderCheck
    \/ ReminderGetPending
    \/ ReminderUnknown

SpecReminder == InitReminder /\ [][NextReminder]_vars

-----------------------------------------------------------------------------
(* Reading a KHQR string back *)

\* a generate request was answered with a QR string
QrIssued == pc = "done" /\ resp.status = 200 /\ resp.qrString # <<>>

\* ... for a descriptor that is valid in every respect the data model names:
\* a merchant id, the currency USD or KHR, a positive finite amount
QrIssuedValid ==
    /\ QrIssued
    /\ Truthy(resp.payload.merchantId)
    /\ resp.payload.currency \in {STR_USD, STR_KHR}
    /\ req.body.amount.kind = "number" /\ req.body.amount.cents > 0

IsDigit(ch) == ch >= 48 /\ ch <= 57

\* what a scanner reads where no field can be read
Malformed == [tag |-> <<>>, value |-> <<>>]

\* the scanner: tag (2 characters), length (2 decimal digits), value
\* (length characters), from position i to the end of s
RECURSIVE ScanFrom(_, _)
ScanFrom(s, i) ==
    IF i > Len(s) THEN <<>>
    ELSE IF i + 3 > Len(s) \/ ~IsDigit(s[i + 2]) \/ ~IsDigit(s[i + 3])
    THEN <<Malformed>>
    ELSE LET len == 10 * (s[i + 2] - 48) + (s[i + 3] - 48)
         IN  IF i + 3 + len > Len(s)
             THEN <<Malformed>>
             ELSE <<[tag |-> SubSeq(s, i, i + 1), value |-> SubSeq(s, i + 4, i + 3 + len)]>>
                  \o ScanFrom(s, i + 4 + len)

Scan(s) == ScanFrom(s, 1)

Field(t, v) == [tag |-> t, value |-> v]

\* the two-digit decimal numeral of n
Dec2(n) == <<48 + (n \div 10), 48 + (n % 10)>>

\* a well-formed field: the tag, the two-digit count of the value, the value
TLV(t, v) == t \o Dec2(Len(v)) \o v

\* the number a decimal numeral stands for
RECURSIVE DecimalValue(_)
DecimalValue(d) ==
    IF d = <<>> THEN 0
    ELSE 10 * DecimalValue(SubSeq(d, 1, Len(d) - 1)) + (d[Len(d)] - 48)

\* s has lit at position i
HasAt(s, i, lit) ==
    /\ i >= 1
    /\ i + Len(lit) - 1 <= Len(s)
    /\ SubSeq(s, i, i + Len(lit) - 1) = lit

\* the tag-29 and tag-62 values the answering handler assembled
BuiltMerchantInfo ==
    IF req.handler = "env" THEN merchantInfo_env(resp.payload)
    ELSE IF req.handler = "md5" THEN merchantInfo_md5(resp.payload)
    ELSE merchantInfo(resp.payload)

BuiltAdditionalData ==
    IF req.handler = "env" THEN additionalData_env(resp.payload)
    ELSE IF req.handler = "md5" THEN additionalData_md5(resp.payload)
    ELSE additionalData(resp.payload)

BuiltName == substring(resp.payload.merchantName, 25)
BuiltCity == substring(resp.payload.merchantCity, 15)
BuiltBill == substring(req.body.orderId, 25)
BuiltCrc  == SubSeq(resp.qrString, Len(resp.qrString) - 3, Len(resp.qrString))

(* Where the fields of the issued string start, counted from its end: the  *)
(* values of tags 52 to 63 are at most 99 characters long, so each of      *)
(* these fields is 4 characters longer than its value.                     *)
At63 == Len(resp.qrString) - 7
At62 == At63 - (8 + Len(BuiltBill))
At60 == At62 - (4 + Len(BuiltCity))
At59 == At60 - (4 + Len(BuiltName))
At58 == At59 - 6
At54 == At58 - (4 + Len(resp.payload.amount))
At53 == At54 - 7
At52 == At53 - 8

\* the characters of the issued string from position i up to position j - 1
Slice(i, j) == SubSeq(resp.qrString, i, j - 1)

-----------------------------------------------------------------------------
(* Claims *)

\* C1: scanning an issued string as tag(2) + length(2) + value(length)
\* yields exactly the fields 00, 01, 29, 52, 53, 54, 58, 59, 60, 62, 63 with
\* the values they were built from, and consumes the string exactly (stated
\* for the descriptors that are valid otherwise).
C1_ScanRecoversFields ==
    QrIssuedValid =>
        Scan(resp.qrString) =
            << Field(<<48, 48>>, <<48, 49>>),
               Field(<<48, 49>>, <<49, 50>>),
               Field(STR_29, BuiltMerchantInfo),
               Field(<<53, 50>>, <<53, 52, 49, 49>>),
               Field(<<53, 51>>, currencyCode(resp.payload)),
               Field(STR_54, resp.payload.amount),
               Field(<<53, 56>>, <<75, 72>>),
               Field(STR_59, BuiltName),
               Field(STR_60, BuiltCity),
               Field(STR_62, BuiltAdditionalData),
               Field(<<54, 51>>, BuiltCrc) >>

\* C2: the last 4 characters of an issued string are calculateCRC16 of all
\* the characters before them, and those characters end with "6304".
C2_CrcCoversAllButItself ==
    QrIssued =>
        LET n == Len(resp.qrString)
        IN  /\ n >= 8
            /\ SubSeq(resp.qrString, n - 7, n - 4) = STR_6304
            /\ SubSeq(resp.qrString, n - 3, n)
                   = calculateCRC16(SubSeq(resp.qrString, 1, n - 4))

\* a string was issued for a merchant id of 86 characters
C2_Witness == QrIssued /\ Len(resp.qrString) > 150

\* the reference CRC16-CCITT-FALSE: the register is masked to 16 bits after
\* every shift
RECURSIVE RefShift(_, _)
RefShift(r, j) ==
    IF j = 0 THEN r
    ELSE RefShift((IF (r \div 32768) % 2 = 1
                   THEN BitXor(2 * r, 4129)
                   ELSE 2 * r) % 65536, j - 1)

RECURSIVE RefRegister(_, _)
RefRegister(s, n) ==
    IF n = 0 THEN 65535
    ELSE RefShift(BitXor(RefRegister(s, n - 1), s[n] * 256), 8)

HexDigits == <<48, 49, 50, 51, 52, 53, 54, 55, 56, 57, 65, 66, 67, 68, 69, 70>>

RefCRC16(s) ==
    LET r == RefRegister(s, Len(s))
    IN  << HexDigits[(r \div 4096) + 1], HexDigits[((r \div 256) % 16) + 1],
           HexDigits[((r \div 16) % 16) + 1], HexDigits[(r % 16) + 1] >>

\* C3: calculateCRC16, masking once per character, returns what the
\* reference algorithm returns, for every string including the empty one
\* and those with code units above 255; the result is 4 characters from
\* 0-9A-F, and "FFFF" for the empty string.
C3_CrcIsCcittFalse ==
    /\ crc = RefCRC16(str)
    /\ Len(crc) = 4
    /\ \A i \in 1..Len(crc) : \E k \in 1..16 : crc[i] = HexDigits[k]
    /\ (str = <<>> => crc = <<70, 70, 70, 70>>)

\* the checksum of a string with a code unit above 255 was computed
C3_Witness == Len(str) >= 2 /\ \E i \in 1..Len(str) : str[i] > 255

\* the number of characters after the decimal point of a numeral
FractionDigits(a) ==
    IF \E i \in 1..Len(a) : a[i] = 46
    THEN Len(a) - (CHOOSE i \in 1..Len(a) : a[i] = 46)
    ELSE 0

\* C4: in an issued string the tag-54 amount has exactly 2 fraction digits
\* when tag 53 holds 840 and no decimal point when tag 53 holds 116 (stated
\* for the descriptors that are valid otherwise).
C4_FractionDigitsFollowCurrency ==
    QrIssuedValid =>
        LET code   == Slice(At53 + 4, At54)
            amount == Slice(At54 + 4, At58)
        IN  /\ code = STR_840 =>
                   /\ FractionDigits(amount) = 2
                   /\ \A i \in 1..Len(amount) : IsDigit(amount[i]) \/ amount[i] = 46
            /\ code = STR_116 => \A i \in 1..Len(amount) : amount[i] # 46

\* C5: no string is issued for a descriptor whose currency is neither USD
\* nor KHR: the request is answered with an error.
C5_UnknownCurrencyRejected ==
    (QrIssued /\ Truthy(resp.payload.merchantId)
              /\ req.body.amount.kind = "number" /\ req.body.amount.cents > 0)
        => resp.payload.currency \in {STR_USD, STR_KHR}

\* the amount is negative, or not a finite number
BadAmount(a) == a.kind # "number" \/ a.cents < 0

\* C6: a request whose amount is negative or not a finite number is
\* answered with an error: no string is returned and no payment is inserted.
C6_BadAmountRejected ==
    [][ (pc = "pending" /\ pc' = "done" /\ BadAmount(req.body.amount)
                        /\ Truthy(env.BAKONG_MERCHANT_ID))
            => (resp'.status = 500 /\ resp'.qrString = <<>> /\ payments' = payments) ]_vars

\* C7: every length prefix the encoder emits, top-level or nested, is
\* exactly two decimal digits and counts the characters of its value; no
\* value is longer than 99 characters (stated for the descriptors that are
\* valid otherwise).
C7_TwoDigitLengths ==
    (QrIssuedValid /\ req.handler \in {"index", "md5"}) =>
        /\ Len(BuiltMerchantInfo) <= 99
        /\ Len(resp.payload.merchantId) <= 99
        /\ BuiltMerchantInfo
               = TLV(<<48, 48>>, <<98, 97, 107, 111, 110, 103>>)
                 \o TLV(<<48, 49>>, resp.payload.merchantId)
        /\ BuiltAdditionalData = TLV(<<48, 49>>, BuiltBill)
        /\ resp.qrString
               =    TLV(<<48, 48>>, <<48, 49>>)
                 \o TLV(<<48, 49>>, <<49, 50>>)
                 \o TLV(STR_29, BuiltMerchantInfo)
                 \o TLV(<<53, 50>>, <<53, 52, 49, 49>>)
                 \o TLV(<<53, 51>>, currencyCode(resp.payload))
                 \o TLV(STR_54, resp.payload.amount)
                 \o TLV(<<53, 56>>, <<75, 72>>)
                 \o TLV(STR_59, BuiltName)
                 \o TLV(STR_60, BuiltCity)
                 \o TLV(STR_62, BuiltAdditionalData)
                 \o TLV(<<54, 51>>, BuiltCrc)

\* C8: the tag-29 value is a well-formed TLV sequence whose sub-field
\* lengths count the characters of the merchant id (or of the merchant name
\* cut to 15), and the tag-29 length is the length of that value (stated
\* for the descriptors that are valid otherwise).
C8_MerchantInfoWellFormed ==
    (QrIssuedValid /\ req.handler \in {"index", "env"}) =>
        /\ Scan(BuiltMerchantInfo) =
               IF req.handler = "env"
               THEN << Field(<<48, 48>>, JSToString(resp.payload.merchantId)),
                       Field(<<48, 49>>, substring(resp.payload.merchantName, 15)) >>
               ELSE << Field(<<48, 48>>, <<98, 97, 107, 111, 110, 103>>),
                       Field(<<48, 49>>, resp.payload.merchantId) >>
        /\ Slice(At52 - Len(BuiltMerchantInfo), At52) = BuiltMerchantInfo
        /\ DecimalValue(Slice(15, At52 - Len(BuiltMerchantInfo)))
               = Len(BuiltMerchantInfo)

\* C9: the fields of an issued string are 00, 01, 29, 52, 53, 54, 58, 59,
\* 60, 62, 63 in this order, each once; the string begins with
\* "000201010212" and holds the constant fields "52045411" and "5802KH".
C9_FixedFieldOrder ==
    QrIssued =>
        /\ HasAt(resp.qrString, 1, <<48, 48, 48, 50, 48, 49, 48, 49, 48, 50, 49, 50>>)
        /\ HasAt(resp.qrString, 13, <<50, 57>>)
        /\ At52 >= 17
        /\ HasAt(resp.qrString, At52, <<53, 50, 48, 52, 53, 52, 49, 49>>)
        /\ HasAt(resp.qrString, At53, <<53, 51, 48, 51>>)
        /\ HasAt(resp.qrString, At54, <<53, 52>>)
        /\ HasAt(resp.qrString, At58, <<53, 56, 48, 50, 75, 72>>)
        /\ HasAt(resp.qrString, At59, <<53, 57>>)
        /\ HasAt(resp.qrString, At60, <<54, 48>>)
        /\ HasAt(resp.qrString, At62, <<54, 50>>)
        /\ HasAt(resp.qrString, At63, <<54, 51, 48, 52>>)

\* a string was issued from a configured merchant with oversized fields
C9_Witness == QrIssued /\ Len(resp.payload.merchantName) > 25

\* C10: tag 62 nests exactly one sub-field, sub-tag "01", holding the first
\* 25 characters of the transaction id behind their two-digit count, in
\* every revision of the encoder (stated for the descriptors that are valid
\* otherwise).
C10_BillNumberSubField ==
    QrIssuedValid =>
        Slice(At62, At63) = TLV(STR_62, TLV(<<48, 49>>, BuiltBill))

\* the first n characters of s, all of s when it is shorter
FirstChars(s, n) == [i \in 1..(IF Len(s) < n THEN Len(s) ELSE n) |-> s[i]]

\* C11: in an issued string tag 59 holds the first 25 characters of the
\* merchant name behind their two-digit count ("25" for a longer name) and
\* tag 60 the first 15 characters of the merchant city ("15" for a longer
\* city), shorter values unchanged; a validated request is never answered
\* with an error on account of their size: its only error is the failure of
\* the image request.
C11_OversizedFieldsTruncated ==
    /\ QrIssued =>
           LET name == resp.payload.merchantName
               city == resp.payload.merchantCity
           IN  /\ HasAt(resp.qrString, At58, <<53, 56, 48, 50, 75, 72>>)
               /\ Slice(At59, At60) = TLV(<<53, 57>>, FirstChars(name, 25))
               /\ Slice(At60, At62) = TLV(<<54, 48>>, FirstChars(city, 15))
               /\ HasAt(resp.qrString, At62, <<54, 50>>)
               /\ Len(name) > 25 => Slice(At59 + 2, At59 + 4) = <<50, 53>>
               /\ Len(city) > 15 => Slice(At60 + 2, At60 + 4) = <<49, 53>>
               /\ Len(name) <= 25 => Slice(At59 + 4, At60) = name
               /\ Len(city) <= 15 => Slice(At60 + 4, At62) = city
    /\ (/\ pc = "done"
        /\ req.body.action # STR_check_payment
        /\ NumTruthy(req.body.amount)
        /\ Truthy(req.body.orderId)
        /\ resp.status # 200) => resp.imageRequested

\* a string was issued by the revision with the payment status check for a
\* merchant name of 30 and a merchant city of 20 characters
C11_Witness ==
    /\ QrIssued
    /\ req.handler = "md5"
    /\ Len(resp.payload.merchantName) = 30
    /\ Len(resp.payload.merchantCity) = 20

\* s holds lit somewhere
Contains(s, lit) == \E i \in 1..Len(s) : HasAt(s, i, lit)

\* a string was issued for merchant@bakong, GameHost, Phnom Penh, USD,
\* ORDER123 and the amount 10.00 of the request
ExampleIssued ==
    /\ QrIssued
    /\ resp.payload.merchantId = STR_merchant_bakong
    /\ resp.payload.merchantName = STR_GameHost
    /\ resp.payload.merchantCity = STR_Phnom_Penh
    /\ resp.payload.currency = STR_USD
    /\ resp.payload.transactionId = STR_ORDER123
    /\ req.body.amount = Num(1000)

\* the last 4 characters of s are from 0-9A-F
EndsInUpperHex(s) ==
    /\ Len(s) >= 4
    /\ \A i \in (Len(s) - 3)..Len(s) : \E k \in 1..16 : s[i] = HexDigits[k]

\* C12 as stated: the string issued for the example descriptor starts with
\* "000201010212", holds "5303840", holds the amount as "5410.00" and ends
\* in 4 upper-case hexadecimal characters.
C12_ExampleAsStated ==
    ExampleIssued =>
        /\ HasAt(resp.qrString, 1, <<48, 48, 48, 50, 48, 49, 48, 49, 48, 50, 49, 50>>)
        /\ Contains(resp.qrString, <<53, 51, 48, 51, 56, 52, 48>>)
        /\ Contains(resp.qrString, <<53, 52, 49, 48, 46, 48, 48>>)
        /\ EndsInUpperHex(resp.qrString)

\* C12, amended: the string issued for the example descriptor starts with
\* "000201010212", holds "5303840", holds the amount behind its two-digit
\* length as "540510.00" and ends in 4 upper-case hexadecimal characters.
C12_ExampleEncoded ==
    ExampleIssued =>
        /\ HasAt(resp.qrString, 1, <<48, 48, 48, 50, 48, 49, 48, 49, 48, 50, 49, 50>>)
        /\ Contains(resp.qrString, <<53, 51, 48, 51, 56, 52, 48>>)
        /\ Contains(resp.qrString, <<53, 52, 48, 53, 49, 48, 46, 48, 48>>)
        /\ EndsInUpperHex(resp.qrString)

\* supabase/functions/bakong-qr/index.ts issued a string for the example
\* descriptor, built from its defaults
C12_Witness == ExampleIssued /\ req.handler = "index" /\ config = NoConfig

\* the merchant id the handler of the request in flight reads
SuppliedMerchantId ==
    IF req.handler = "env" THEN env.BAKONG_MERCHANT_ID ELSE config.merchantId

\* the request in flight asks for a QR string and lacks one of merchant id,
\* transaction id, amount, currency (an amount that is given is a finite
\* number, not negative)
MissingRequiredField ==
    /\ req.body.action # STR_check_payment
    /\ ~BadAmount(req.body.amount) \/ req.body.amount.kind = "undefined"
    /\ \/ SuppliedMerchantId = Undefined
       \/ req.body.orderId = Undefined
       \/ req.body.amount.kind = "undefined"
       \/ req.body.currency = Undefined

\* C13: a request that lacks the merchant id, the transaction id, the
\* amount or the currency is answered with an error and changes nothing: no
\* string is returned, no image is requested, no payment is inserted.
C13_MissingFieldRejected ==
    [][ (pc = "pending" /\ pc' = "done" /\ MissingRequiredField)
            => (/\ resp'.status = 500
                /\ resp'.qrString = <<>>
                /\ ~resp'.imageRequested
                /\ payments' = payments) ]_vars

\* the payments table holds a row of this order that carries an MD5 hash
HashStored(orderId) ==
    \E i \in 1..Len(payments) :
        payments[i].transaction_id = orderId /\ payments[i].md5_hash

\* C15: in the revision with the payment status check, a step inserts a
\* payment row only when it answers a generate request that has amount,
\* orderId and userId and whose image request succeeded, and then it
\* appends the one row of that order with its hash; a generate request
\* without userId leaves the table unchanged; a check-payment request calls
\* the Bakong API only if a stored row of its order carries a hash, and
\* otherwise it is answered with an error, the API not called.
C15_PaymentRowGatesStatusCheck ==
    [][ (pc = "pending" /\ pc' = "done" /\ req.handler = "md5") =>
            /\ payments' # payments =>
                   /\ req.body.action # STR_check_payment
                   /\ NumTruthy(req.body.amount)
                   /\ Truthy(req.body.orderId)
                   /\ Truthy(req.body.userId)
                   /\ resp'.status = 200 /\ resp'.imageRequested
                   /\ payments' = Append(payments,
                                         [transaction_id |-> req.body.orderId,
                                          md5_hash |-> TRUE])
            /\ ~Truthy(req.body.userId) => payments' = payments
            /\ req.body.action = STR_check_payment =>
                   /\ resp'.bakongCalled => HashStored(req.body.orderId)
                   /\ resp'.status = 200 => resp'.bakongCalled
                   /\ ~HashStored(req.body.orderId) =>
                          resp'.status = 500 /\ ~resp'.bakongCalled ]_vars

\* a check-payment request found the hash stored by an earlier generate
\* request and was answered by the Bakong API
C15_Witness ==
    /\ pc = "done"
    /\ req.handler = "md5"
    /\ req.body.action = STR_check_payment
    /\ resp.status = 200 /\ resp.bakongCalled
    /\ HashStored(req.body.orderId)

\* the whole days until a time diff milliseconds ahead, a started day
\* counting as a whole one
DaysUp(diff) == CHOOSE d \in (0 - 20)..20 : (d - 1) * Day < diff /\ diff <= d * Day

\* the last request was a "check" and was answered with its summary
Checked == summary.action = "check" /\ summary.status = 200

\* C14: the "check" action generates a reminder for an invoice exactly when
\* the invoice is unpaid, is due between the check time and 7 days after it,
\* and its days until due, rounded up, are 7, 3 or 1; no invoice gets two
\* reminders; remindersGenerated is the number of reminders, equals
\* sevenDays + threeDays + oneDay and is at most totalInvoicesChecked.
C14_RemindAtSevenThreeOne ==
    Checked =>
        LET reminders == summary.reminders
            Reminded(i) == \E k \in 1..Len(reminders) : reminders[k].invoiceId = i
        IN  /\ \A i \in 1..Len(invoices) :
                   Reminded(i) <=>
                       /\ invoices[i].status = "unpaid"
                       /\ now <= invoices[i].due_date
                       /\ invoices[i].due_date <= now + 7 * Day
                       /\ DaysUp(invoices[i].due_date - now) \in {7, 3, 1}
            /\ \A k \in 1..Len(reminders) :
                   /\ reminders[k].invoiceId \in 1..Len(invoices)
                   /\ \A l \in 1..Len(reminders) :
                          reminders[k].invoiceId = reminders[l].invoiceId => k = l
            /\ summary.remindersGenerated = Len(reminders)
            /\ summary.remindersGenerated
                   = summary.reminderBreakdown.sevenDays
                     + summary.reminderBreakdown.threeDays
                     + summary.reminderBreakdown.oneDay
            /\ summary.remindersGenerated <= summary.totalInvoicesChecked

\* a check found an invoice to remind of and another, unpaid and due within
\* 7 days, to leave alone
C14_Witness ==
    /\ Checked
    /\ summary.remindersGenerated >= 1
    /\ summary.totalInvoicesChecked > summary.remindersGenerated

\* the last request was a "get-pending" and was answered with its list
PendingListed == summary.action = "get-pending" /\ summary.status = 200

\* C16: in the answer of "get-pending" every invoice due before the check
\* time is flagged isOverdue; dueSoonCount counts the listed invoices that
\* are not due before the check time and are due within 3 days; and
\* overdueCount + dueSoonCount is at most totalPending.
C16_OverdueNotDueSoon ==
    PendingListed =>
        LET reminders == summary.reminders
        IN  /\ \A k \in 1..Len(reminders) :
                   reminders[k].dueDate < now => reminders[k].isOverdue
            /\ summary.dueSoonCount
                   = Cardinality({k \in 1..Len(reminders) :
                                     /\ ~(reminders[k].dueDate < now)
                                     /\ reminders[k].daysUntilDue <= 3})
            /\ summary.overdueCount + summary.dueSoonCount <= summary.totalPending

====
